---- MODULE Spec2Model ----
(***************************************************************************)
(* Model of the CEB tariff billing service (BillingService) of the         *)
(* three-phase energy monitoring backend.                                  *)
(*                                                                         *)
(* Numbers.  The program computes in IEEE doubles and rounds what it       *)
(* returns with parseFloat(x.toFixed(2)).  The model computes exactly, in  *)
(* fixed point, and keeps the rounding:                                    *)
(*   energy (kWh), demand (kVA)   inputs in thousandths  (30010 = 30.01)   *)
(*   power factor                 inputs in hundredths   (85 = 0.85)       *)
(*   rates (Rs per kWh / kVA)     in hundredths          (785 = 7.85)      *)
(*   money before rounding        in 1/100000 Rs (energy * rate), with a   *)
(*                                remainder in 1/200 of that unit where a  *)
(*                                percentage has been applied              *)
(*   every returned, rounded value in hundredths (paisa, 0.01 kWh/kVA)     *)
(***************************************************************************)
EXTENDS Integers, Sequences, FiniteSets

VARIABLES
    request,    \* the BillCalculationRequest in hand, or NoRequest
    result,     \* what calculateBill produced for it: a bill, a thrown error, or nothing yet
    today,      \* the local calendar day the system clock (new Date()) reports
    clock,      \* the local time of day in minutes, and the time zone of the process
    stats,      \* the arguments of the generateInsights call in hand, or NoData
    insights,   \* what generateInsights resolved with for them, or nothing yet
    tasks,      \* the request handlers under way on the event loop, each at its await
    heap,       \* the objects the handlers' calls have created, by address
    called,     \* the arguments of the detectPhaseImbalance, checkBudgetStatus or
                \* getPhaseContributions call in hand, or NoData
    returned,   \* what that call returned, or nothing yet
    body,       \* the HTTP request the server has in hand, or NoRequest
    response,   \* the HTTP response the server gave to it, or nothing yet
    gsmLogs,    \* the server's in-memory store of GSM test entries
    received    \* every GSM test entry the server has received, in arrival order

serverVars == <<body, response, gsmLogs, received>>
functionVars == <<called, returned>>

vars == <<request, result, today, clock, stats, insights, tasks, heap,
          called, returned, body, response, gsmLogs, received>>

\* what the billing service and its clock, the insights service, the
\* concurrent handlers, the single functions and the server's endpoints each
\* leave alone
outsideBilling == <<stats, insights, tasks, heap, functionVars, serverVars>>
outsideInsights == <<request, result, today, clock, tasks, heap, functionVars, serverVars>>
outsideTasks == <<request, result, today, clock, stats, insights, functionVars, serverVars>>
outsideFunctions == <<request, result, today, clock, stats, insights, tasks, heap, serverVars>>
outsideServer == <<request, result, today, clock, stats, insights, tasks, heap, functionVars>>

----------------------------------------------------------------------------
(* Bounds of the model *)

\* energies are drawn within Fine thousandths of a kWh around every slab boundary
Fine == 6
\* the clock runs over the days 0..MaxDay
MaxDay == 1
\* at most MaxHandlers request handlers are under way at once
MaxHandlers == 2
\* the server receives at most MaxPosts GSM test requests
MaxPosts == 102

----------------------------------------------------------------------------
(* Fixed-point arithmetic *)

\* one rupee in money units (1/100000 Rs)
Rs(x) == x * 100000

\* an exact amount w + r/200 money units, 0 <= r < 200 (w is the floor)
Exact(w) == [w |-> w, r |-> 0]

Plus(x, n) == [w |-> x.w + n, r |-> x.r]

Negate(x) == IF x.r = 0 THEN [w |-> -x.w, r |-> 0]
             ELSE [w |-> -x.w - 1, r |-> 200 - x.r]

\* s * (h/2) / 100 exactly: h counts half percents
TimesHalfPercents(s, h) ==
    LET q == s \div 200
        r == s % 200
    IN  [w |-> q * h + ((r * h) \div 200), r |-> (r * h) % 200]

\* parseFloat((x / (scale/100)).toFixed(2)) in hundredths: Number.prototype.toFixed
\* takes the nearest hundredth and, of two equally near, the larger magnitude
ToFixed(x, scale) ==
    IF x.w >= 0 THEN (x.w + (scale \div 2)) \div scale
    ELSE -((Negate(x).w + (scale \div 2)) \div scale)

\* n/d rounded to the nearest integer, halves away from zero (d > 0)
Nearest(n, d) ==
    IF n >= 0 THEN (2 * n + d) \div (2 * d) ELSE -((2 * (-n) + d) \div (2 * d))

\* money units per paisa, thousandths per hundredth
MoneyScale == 1000
UnitScale == 10

Min(a, b) == IF a <= b THEN a ELSE b

----------------------------------------------------------------------------
(* Requests *)

\* an optional field: <<>> when the request omits it, <<v>> when it carries v
Undefined == <<>>
Some(v) == <<v>>

Categories == {"domestic-3phase", "general-purpose-3phase", "industrial-3phase"}

\* slab boundaries of the domestic tariff, in kWh
Boundaries == {0, 30, 60, 90, 120, 180}

Offsets == (-Fine .. Fine) \cup {-10, 10}

\* thousandths of a kWh
Energies ==
    {b * 1000 + o : b \in Boundaries, o \in Offsets}
        \cup {17, 100, 4000, 12344, 45678, 100000, 200000}

\* thousandths of a kVA
MaxDemands == {Undefined, Some(0), Some(1237), Some(1640), Some(2000)}

\* hundredths
PowerFactors ==
    {Undefined, Some(0), Some(1), Some(80), Some(83), Some(84), Some(85),
     Some(86), Some(90), Some(91), Some(95), Some(100)}

Requests ==
    [totalEnergy : Energies,
     connectionCategory : Categories \cup {"single-phase"},
     maxDemandKVA : MaxDemands,
     averagePowerFactor : PowerFactors]

NoRequest == [kind |-> "none"]
Pending == [kind |-> "pending"]

----------------------------------------------------------------------------
(* BillingService.calculateDomestic3Phase *)

\* Math.min(remaining, Infinity) is remaining: a limit above every energy
Infinity == 2147483647

slabsRegressive ==
    << [name |-> "0-30 kWh",    limit |-> 30, rate |-> 785],
       [name |-> "31-60 kWh",   limit |-> 30, rate |-> 1500],
       [name |-> "61-90 kWh",   limit |-> 30, rate |-> 2000],
       [name |-> "91-120 kWh",  limit |-> 30, rate |-> 1000],
       [name |-> "121-180 kWh", limit |-> 60, rate |-> 4200],
       [name |-> "181+ kWh",    limit |-> 2147483647, rate |-> 5000] >>

\* the slab table: limit in kWh, rate in hundredths of a rupee per kWh
slabs ==
    << [name |-> "0-30 kWh",    limit |-> 30, rate |-> 785],
       [name |-> "31-60 kWh",   limit |-> 30, rate |-> 1500],
       [name |-> "61-90 kWh",   limit |-> 30, rate |-> 2000],
       [name |-> "91-120 kWh",  limit |-> 30, rate |-> 3000],
       [name |-> "121-180 kWh", limit |-> 60, rate |-> 4200],
       [name |-> "181+ kWh",    limit |-> Infinity, rate |-> 5000] >>

\* a slab's limit in thousandths of a kWh
SlabLimit(slab) == IF slab.limit = Infinity THEN Infinity ELSE slab.limit * 1000

SlabEntryUnrounded(slab, unitsInSlab, amount) ==
    [slab |-> slab.name, units |-> unitsInSlab \div UnitScale, rate |-> slab.rate,
     amount |-> amount \div MoneyScale]

\* the entry pushed for a slab: units and amount are rounded, each on its own
SlabEntry(slab, unitsInSlab, amount) ==
    [slab |-> slab.name,
     units |-> ToFixed(Exact(unitsInSlab), UnitScale),
     rate |-> slab.rate,
     amount |-> ToFixed(Exact(amount), MoneyScale)]

BreakAtNegative(remainingEnergy) == remainingEnergy < 0

\* the loop's exit test: if (remainingEnergy <= 0) break
SlabLoopBreak(remainingEnergy) == remainingEnergy <= 0

\* the for loop over slabs from index i on, with the loop's three accumulators
RECURSIVE SlabLoop(_, _, _, _)
SlabLoop(i, remainingEnergy, breakdown, energyCharge) ==
    IF i > Len(slabs) \/ SlabLoopBreak(remainingEnergy)
    THEN [breakdown |-> breakdown, energyCharge |-> energyCharge]
    ELSE LET slab == slabs[i]
             unitsInSlab == Min(remainingEnergy, SlabLimit(slab))
             amount == unitsInSlab * slab.rate
         IN  SlabLoop(i + 1, remainingEnergy - unitsInSlab,
                      Append(breakdown, SlabEntry(slab, unitsInSlab, amount)),
                      energyCharge + amount)

DomesticFixedChargeExclusive(totalEnergyKWh) ==
    IF totalEnergyKWh < 60000 THEN 15000
    ELSE IF totalEnergyKWh < 90000 THEN 35000
    ELSE IF totalEnergyKWh < 120000 THEN 60000
    ELSE IF totalEnergyKWh < 180000 THEN 75000
    ELSE 100000

\* fixed charge based on consumption, in hundredths of a rupee
DomesticFixedCharge(totalEnergyKWh) ==
    IF totalEnergyKWh <= 60000 THEN 15000
    ELSE IF totalEnergyKWh <= 90000 THEN 35000
    ELSE IF totalEnergyKWh <= 120000 THEN 60000
    ELSE IF totalEnergyKWh <= 180000 THEN 75000
    ELSE 100000

calculateDomestic3Phase(totalEnergyKWh) ==
    LET walk == SlabLoop(1, totalEnergyKWh, <<>>, 0)
        fixedCharge == DomesticFixedCharge(totalEnergyKWh)
    IN  [breakdown |-> walk.breakdown,
         fixedCharge |-> fixedCharge,
         totalAmount |-> Exact(walk.energyCharge + fixedCharge * MoneyScale)]

----------------------------------------------------------------------------
(* BillingService.calculateGeneralPurpose3Phase *)

GeneralPurposeEnergyRate == 2850
GeneralPurposeFixedCharge == 50000
GeneralPurposeDemandRate == 45000

FlatEntryTruncated(name, totalEnergyKWh, energyRate, energyCharge) ==
    [slab |-> name,
     units |-> totalEnergyKWh \div UnitScale,
     rate |-> energyRate,
     amount |-> energyCharge \div MoneyScale]

\* the single breakdown entry of a flat-rate tariff
FlatEntry(name, totalEnergyKWh, energyRate, energyCharge) ==
    [slab |-> name,
     units |-> ToFixed(Exact(totalEnergyKWh), UnitScale),
     rate |-> energyRate,
     amount |-> ToFixed(Exact(energyCharge), MoneyScale)]

GeneralPurposePfAdjustmentWithIncentive(subtotal, powerFactor) ==
    IF powerFactor < 85
    THEN TimesHalfPercents(subtotal, (85 - powerFactor) * 2)
    ELSE Negate(TimesHalfPercents(subtotal, (powerFactor - 85) * 2))

\* power factor penalty if PF < 0.85: 1% for each 0.01 below 0.85
GeneralPurposePfAdjustment(subtotal, powerFactor) ==
    IF powerFactor < 85
    THEN LET pfDeficit == 85 - powerFactor
             penaltyHalfPercents == pfDeficit * 2
         IN  TimesHalfPercents(subtotal, penaltyHalfPercents)
    ELSE Exact(0)

calculateGeneralPurpose3Phase(totalEnergyKWh, maxDemandKVA, powerFactor) ==
    LET energyRate == GeneralPurposeEnergyRate
        energyCharge == totalEnergyKWh * energyRate
        fixedCharge == GeneralPurposeFixedCharge
        demandCharges == maxDemandKVA * GeneralPurposeDemandRate
        pfAdjustment == GeneralPurposePfAdjustment(energyCharge + demandCharges, powerFactor)
    IN  [breakdown |-> << FlatEntry("General Purpose Rate", totalEnergyKWh,
                                    energyRate, energyCharge) >>,
         fixedCharge |-> fixedCharge,
         demandCharges |-> demandCharges,
         pfAdjustment |-> pfAdjustment,
         totalAmount |-> Plus(pfAdjustment,
                              energyCharge + fixedCharge * MoneyScale + demandCharges)]

----------------------------------------------------------------------------
(* BillingService.calculateIndustrial3Phase *)

IndustrialEnergyRate == 2450
IndustrialFixedCharge == 150000
IndustrialDemandRate == 55000

IndustrialPfAdjustmentInclusive(subtotal, powerFactor) ==
    IF powerFactor <= 85
    THEN TimesHalfPercents(subtotal, (85 - powerFactor) * 3)
    ELSE IF powerFactor >= 90
    THEN Negate(TimesHalfPercents(subtotal, (powerFactor - 90 + 1) * 1))
    ELSE Exact(0)

IndustrialPfAdjustmentTripleBonus(subtotal, powerFactor) ==
    IF powerFactor < 85
    THEN TimesHalfPercents(subtotal, (85 - powerFactor) * 3)
    ELSE IF powerFactor > 90
    THEN Negate(TimesHalfPercents(subtotal, (powerFactor - 90) * 3))
    ELSE Exact(0)

\* power factor adjustment: penalty of 1.5% for each 0.01 below 0.85, or
\* incentive of 0.5% for each 0.01 above 0.90
IndustrialPfAdjustment(subtotal, powerFactor) ==
    IF powerFactor < 85
    THEN LET pfDeficit == 85 - powerFactor
             penaltyHalfPercents == pfDeficit * 3
         IN  TimesHalfPercents(subtotal, penaltyHalfPercents)
    ELSE IF powerFactor > 90
    THEN LET pfBonus == powerFactor - 90
             discountHalfPercents == pfBonus * 1
         IN  Negate(TimesHalfPercents(subtotal, discountHalfPercents))
    ELSE Exact(0)

calculateIndustrial3Phase(totalEnergyKWh, maxDemandKVA, powerFactor) ==
    LET energyRate == IndustrialEnergyRate
        energyCharge == totalEnergyKWh * energyRate
        fixedCharge == IndustrialFixedCharge
        demandCharges == maxDemandKVA * IndustrialDemandRate
        pfAdjustment == IndustrialPfAdjustment(energyCharge + demandCharges, powerFactor)
    IN  [breakdown |-> << FlatEntry("Industrial Rate", totalEnergyKWh,
                                    energyRate, energyCharge) >>,
         fixedCharge |-> fixedCharge,
         demandCharges |-> demandCharges,
         pfAdjustment |-> pfAdjustment,
         totalAmount |-> Plus(pfAdjustment,
                              energyCharge + fixedCharge * MoneyScale + demandCharges)]

----------------------------------------------------------------------------
(* BillingService.generateDailyCosts and BillingService.calculateBill *)

\* A Date is a local calendar day, a local time of day in minutes and the
\* process's time zone.  A zone is its offset from UTC in minutes before and
\* from the local day on which its clocks change.
UTC == [before |-> 0, after |-> 0, changeDay |-> 0]
Colombo == [before |-> 330, after |-> 330, changeDay |-> 0]
SpringForward == [before |-> 60, after |-> 120, changeDay |-> -10]
FallBack == [before |-> 120, after |-> 60, changeDay |-> -10]
Zones == {UTC, Colombo, SpringForward, FallBack}

MinutesPerDay == 1440
TimesOfDay == {90, 720}
Clocks == [minute : TimesOfDay, zone : Zones]

UtcOffset(zone, day) == IF day < zone.changeDay THEN zone.before ELSE zone.after

\* Date.prototype.getDate: the day of the month, in local time
getDate(d) == d.day

\* Date.prototype.setDate: another local day at the same local time of day
setDate(d, day) == [d EXCEPT !.day = day]

\* Date.prototype.toISOString().split('T')[0]: the calendar day in UTC
toISOString(d) ==
    (d.day * MinutesPerDay + d.minute - UtcOffset(d.zone, d.day)) \div MinutesPerDay

daysInMonth == 30

\* 30 entries for the local days up to the clock's day, each dated in UTC and
\* each with the same cost: parseFloat((totalAmount / daysInMonth).toFixed(2))
generateDailyCosts(totalEnergyKWh, totalAmount, now) ==
    LET dailyCost == ToFixed(totalAmount, MoneyScale * daysInMonth)
    IN  [i \in 1 .. daysInMonth |->
            LET date == setDate(now, getDate(now) - (daysInMonth - 1 - (i - 1)))
            IN  [date |-> toISOString(date), cost |-> dailyCost]]

\* value || fallback: the fallback replaces a missing field and a zero alike
OrDefault(field, fallback) ==
    IF field = Undefined \/ field = Some(0) THEN fallback ELSE field[1]

InvalidCategory == [kind |-> "error", message |-> "Invalid connection category"]

DomesticBillWithDemand(req, now) ==
    LET maxDemandKVA == OrDefault(req.maxDemandKVA, 0)
        powerFactor == OrDefault(req.averagePowerFactor, 90)
        r == calculateGeneralPurpose3Phase(req.totalEnergy, maxDemandKVA, powerFactor)
        d == calculateDomestic3Phase(req.totalEnergy)
    IN  [kind |-> "bill",
         totalAmount |-> ToFixed(Plus(r.pfAdjustment, d.totalAmount.w + r.demandCharges),
                                 MoneyScale),
         category |-> req.connectionCategory,
         breakdown |-> d.breakdown,
         fixedCharges |-> d.fixedCharge,
         demandCharges |-> ToFixed(Exact(r.demandCharges), MoneyScale),
         powerFactorAdjustment |-> ToFixed(r.pfAdjustment, MoneyScale),
         maxDemandKVA |-> ToFixed(Exact(maxDemandKVA), UnitScale),
         powerFactor |-> powerFactor,
         dailyCosts |-> generateDailyCosts(req.totalEnergy, d.totalAmount, now)]

\* case 'domestic-3phase'
DomesticBill(req, now) ==
    LET powerFactor == OrDefault(req.averagePowerFactor, 90)
        r == calculateDomestic3Phase(req.totalEnergy)
    IN  [kind |-> "bill",
         totalAmount |-> ToFixed(r.totalAmount, MoneyScale),
         category |-> req.connectionCategory,
         breakdown |-> r.breakdown,
         fixedCharges |-> r.fixedCharge,
         demandCharges |-> 0,
         powerFactorAdjustment |-> 0,
         maxDemandKVA |-> 0,
         powerFactor |-> powerFactor,
         dailyCosts |-> generateDailyCosts(req.totalEnergy, r.totalAmount, now)]

\* case 'general-purpose-3phase' and case 'industrial-3phase': r is the strategy's result
DemandBill(req, r, now) ==
    LET maxDemandKVA == OrDefault(req.maxDemandKVA, 0)
        powerFactor == OrDefault(req.averagePowerFactor, 90)
    IN  [kind |-> "bill",
         totalAmount |-> ToFixed(r.totalAmount, MoneyScale),
         category |-> req.connectionCategory,
         breakdown |-> r.breakdown,
         fixedCharges |-> r.fixedCharge,
         demandCharges |-> ToFixed(Exact(r.demandCharges), MoneyScale),
         powerFactorAdjustment |-> ToFixed(r.pfAdjustment, MoneyScale),
         maxDemandKVA |-> ToFixed(Exact(maxDemandKVA), UnitScale),
         powerFactor |-> powerFactor,
         dailyCosts |-> generateDailyCosts(req.totalEnergy, r.totalAmount, now)]

calculateBillDefaultDomestic(req, now) ==
    IF req.connectionCategory = "general-purpose-3phase"
    THEN DemandBill(req, calculateGeneralPurpose3Phase(req.totalEnergy,
                        OrDefault(req.maxDemandKVA, 0),
                        OrDefault(req.averagePowerFactor, 90)), now)
    ELSE IF req.connectionCategory = "industrial-3phase"
    THEN DemandBill(req, calculateIndustrial3Phase(req.totalEnergy,
                        OrDefault(req.maxDemandKVA, 0),
                        OrDefault(req.averagePowerFactor, 90)), now)
    ELSE DomesticBill(req, now)

\* the switch on request.connectionCategory; the default case throws
calculateBill(req, now) ==
    LET totalEnergyKWh == req.totalEnergy
        maxDemandKVA == OrDefault(req.maxDemandKVA, 0)
        powerFactor == OrDefault(req.averagePowerFactor, 90)
    IN  CASE req.connectionCategory = "domestic-3phase" ->
                DomesticBill(req, now)
          [] req.connectionCategory = "general-purpose-3phase" ->
                DemandBill(req, calculateGeneralPurpose3Phase(totalEnergyKWh,
                                    maxDemandKVA, powerFactor), now)
          [] req.connectionCategory = "industrial-3phase" ->
                DemandBill(req, calculateIndustrial3Phase(totalEnergyKWh,
                                    maxDemandKVA, powerFactor), now)
          [] OTHER -> InvalidCategory

----------------------------------------------------------------------------
(* The state machine: a caller hands calculateBill a request, the call runs
   to its return or its throw, the caller takes the outcome; the clock
   advances on its own. *)

NoData == [kind |-> "none"]

\* no call of a single function in hand
FunctionsIdle ==
    /\ called = NoData
    /\ returned = NoData

\* the server as it starts: no request in hand, no GSM test entry stored
ServerIdle ==
    /\ body = NoRequest
    /\ response = NoRequest
    /\ gsmLogs = << >>
    /\ received = << >>

\* new Date(): the clock's reading
Now == [day |-> today, minute |-> clock.minute, zone |-> clock.zone]

Init ==
    /\ request = NoRequest
    /\ result = NoRequest
    /\ today = 0
    /\ clock = [minute |-> 720, zone |-> UTC]
    /\ stats = NoData
    /\ insights = NoData
    /\ tasks = << >>
    /\ heap = << >>
    /\ FunctionsIdle
    /\ ServerIdle

\* a caller builds a request and calls calculateBill
Call ==
    /\ request = NoRequest
    /\ \E req \in Requests : request' = req
    /\ result' = Pending
    /\ UNCHANGED <<today, clock>>
    /\ UNCHANGED outsideBilling

\* BillingService.calculateBill, from entry to return or throw
CalculateBill ==
    /\ request # NoRequest
    /\ result = Pending
    /\ result' = calculateBill(request, Now)
    /\ UNCHANGED <<request, today, clock>>
    /\ UNCHANGED outsideBilling

\* the caller consumes the outcome; nothing of the call is kept
Return ==
    /\ request # NoRequest
    /\ result # Pending
    /\ request' = NoRequest
    /\ result' = NoRequest
    /\ UNCHANGED <<today, clock>>
    /\ UNCHANGED outsideBilling

\* midnight passes
Tick ==
    /\ today < MaxDay
    /\ today' = today + 1
    /\ UNCHANGED <<request, result, clock>>
    /\ UNCHANGED outsideBilling

Next ==
    \/ Call
    \/ CalculateBill
    \/ Return
    \/ Tick

Spec == Init /\ [][Next]_vars

\* The same service under every clock: the process may run in any time zone
\* and be called at any time of day.
ClockRequests ==
    [totalEnergy : {0, 210, 1204, 100000},
     connectionCategory : {"domestic-3phase", "industrial-3phase", "single-phase"},
     maxDemandKVA : {Undefined, Some(2000)},
     averagePowerFactor : {Undefined}]

InitClock ==
    /\ request = NoRequest
    /\ result = NoRequest
    /\ today = 0
    /\ clock \in Clocks
    /\ stats = NoData
    /\ insights = NoData
    /\ tasks = << >>
    /\ heap = << >>
    /\ FunctionsIdle
    /\ ServerIdle

CallClock ==
    /\ request = NoRequest
    /\ \E req \in ClockRequests : request' = req
    /\ result' = Pending
    /\ UNCHANGED <<today, clock>>
    /\ UNCHANGED outsideBilling

NextClock ==
    \/ CallClock
    \/ CalculateBill
    \/ Return
    \/ Tick

SpecClock == InitClock /\ [][NextClock]_vars

----------------------------------------------------------------------------
(* InsightsService.generateInsights

   Numbers.  Only the ratio of the two energies matters, so they are plain
   integers.  nightTimeLoad is in hundredths of a kW (150 = 1.5), voltages
   in hundredths of a volt (20700 = 207), powerFactor in thousandths
   (850 = 0.85), peakPower in watts.  A number printed with toFixed(d) is
   the record of its kind, its value in units of 10^-d and d.  Icons are
   named, not drawn. *)

\* what a division of two numbers makes: a ratio (den > 0), or one of
\* JavaScript's non-finite numbers
Finite(num, den) == [kind |-> "finite", num |-> num, den |-> den]
PositiveInfinity == [kind |-> "Infinity", num |-> 0, den |-> 1]
NegativeInfinity == [kind |-> "-Infinity", num |-> 0, den |-> 1]
NaN == [kind |-> "NaN", num |-> 0, den |-> 1]

\* (a / b) * 100
PercentOf(a, b) ==
    IF b > 0 THEN Finite(100 * a, b)
    ELSE IF b < 0 THEN Finite(-(100 * a), -b)
    ELSE IF a > 0 THEN PositiveInfinity
    ELSE IF a < 0 THEN NegativeInfinity
    ELSE NaN

\* Math.abs
Abs(x) ==
    IF x.kind = "finite" THEN Finite(IF x.num < 0 THEN -x.num ELSE x.num, x.den)
    ELSE IF x.kind = "NaN" THEN NaN
    ELSE PositiveInfinity

\* x > n, for an integer n: false for NaN
Exceeds(x, n) ==
    IF x.kind = "finite" THEN x.num > n * x.den
    ELSE x.kind = "Infinity"

\* the text x.toFixed(0) puts into a message
Printed(x) ==
    IF x.kind = "finite" THEN [kind |-> "finite", n |-> Nearest(x.num, x.den), digits |-> 0]
    ELSE [kind |-> x.kind, n |-> 0, digits |-> 0]

\* the text (n / unit).toFixed(digits) puts into a message, n an integer count
\* of units per 10^-digits
Fixed(n, unit, digits) == [kind |-> "finite", n |-> Nearest(n, unit), digits |-> digits]

Insight(message, values, severity, icon) ==
    [message |-> message, values |-> values, severity |-> severity, icon |-> icon]

EnergyTrendInclusive(data) ==
    LET energyDiff == data.currentEnergy - data.yesterdayEnergy
        energyDiffPercent == PercentOf(energyDiff, data.yesterdayEnergy)
        size == Abs(energyDiffPercent)
    IN  IF Exceeds(size, 15) \/ (size.kind = "finite" /\ size.num = 15 * size.den)
        THEN IF Exceeds(energyDiffPercent, 0)
             THEN << Insight("Energy usage is {}% higher than yesterday",
                             <<Printed(energyDiffPercent)>>, "warning", "chart increasing") >>
             ELSE << Insight("Great! Energy usage is {}% lower than yesterday",
                             <<Printed(Abs(energyDiffPercent))>>, "info", "chart decreasing") >>
        ELSE << >>

\* Energy usage comparison
EnergyTrend(data) ==
    LET energyDiff == data.currentEnergy - data.yesterdayEnergy
        energyDiffPercent == PercentOf(energyDiff, data.yesterdayEnergy)
    IN  IF Exceeds(Abs(energyDiffPercent), 15)
        THEN IF Exceeds(energyDiffPercent, 0)
             THEN << Insight("Energy usage is {}% higher than yesterday",
                             <<Printed(energyDiffPercent)>>, "warning", "chart increasing") >>
             ELSE << Insight("Great! Energy usage is {}% lower than yesterday",
                             <<Printed(Abs(energyDiffPercent))>>, "info", "chart decreasing") >>
        ELSE << >>

\* Night-time base load detection
NightLoad(data) ==
    IF data.nightTimeLoad > 150
    THEN << Insight("High night-time base load detected (2-6 AM): {} kW",
                    <<Fixed(data.nightTimeLoad, 10, 1)>>, "info", "crescent moon") >>
    ELSE << >>

safeVoltageMin == 20700
safeVoltageMax == 25300

VoltageFloorInclusive(data) ==
    IF data.minVoltage <= safeVoltageMin
    THEN << Insight("Voltage dropped below safe range ({}V). Check electrical connections.",
                    <<Fixed(data.minVoltage, 10, 1)>>, "critical", "high voltage") >>
    ELSE << >>

\* Voltage monitoring: the floor
VoltageFloor(data) ==
    IF data.minVoltage < safeVoltageMin
    THEN << Insight("Voltage dropped below safe range ({}V). Check electrical connections.",
                    <<Fixed(data.minVoltage, 10, 1)>>, "critical", "high voltage") >>
    ELSE << >>

\* Voltage monitoring: the ceiling
VoltageCeiling(data) ==
    IF data.maxVoltage > safeVoltageMax
    THEN << Insight("Voltage spike detected ({}V). Risk of equipment damage.",
                    <<Fixed(data.maxVoltage, 10, 1)>>, "critical", "warning sign") >>
    ELSE << >>

PowerFactorInsightInclusive(data) ==
    IF data.powerFactor <= 850
    THEN << Insight("Low power factor ({}). You're incurring penalty charges. Consider installing capacitors.",
                    <<Fixed(data.powerFactor, 10, 2)>>, "warning", "light bulb") >>
    ELSE IF data.powerFactor >= 950
    THEN << Insight("Excellent power factor ({})! You may be eligible for incentives.",
                    <<Fixed(data.powerFactor, 10, 2)>>, "info", "star") >>
    ELSE << >>

\* Power factor insights
PowerFactorInsight(data) ==
    IF data.powerFactor < 850
    THEN << Insight("Low power factor ({}). You're incurring penalty charges. Consider installing capacitors.",
                    <<Fixed(data.powerFactor, 10, 2)>>, "warning", "light bulb") >>
    ELSE IF data.powerFactor > 950
    THEN << Insight("Excellent power factor ({})! You may be eligible for incentives.",
                    <<Fixed(data.powerFactor, 10, 2)>>, "info", "star") >>
    ELSE << >>

\* Peak demand alert
PeakDemand(data) ==
    IF data.peakPower > 5000
    THEN << Insight("High peak demand detected: {} kW. Consider load shifting to reduce demand charges.",
                    <<Fixed(data.peakPower, 100, 1)>>, "warning", "bar chart") >>
    ELSE << >>

VoltageStabilityInclusive(data) ==
    LET voltageRange == data.maxVoltage - data.minVoltage
    IN  IF voltageRange >= 1500
        THEN << Insight("Unstable voltage detected (+-{}V variation). May affect sensitive equipment.",
                        <<Fixed(voltageRange, 20, 1)>>, "warning", "electric plug") >>
        ELSE << >>

\* Voltage stability
VoltageStability(data) ==
    LET voltageRange == data.maxVoltage - data.minVoltage
    IN  IF voltageRange > 1500
        THEN << Insight("Unstable voltage detected (+-{}V variation). May affect sensitive equipment.",
                        <<Fixed(voltageRange, 20, 1)>>, "warning", "electric plug") >>
        ELSE << >>

AllNormal ==
    Insight("All systems operating normally. Energy consumption is stable.",
            << >>, "info", "check mark")

PushedStabilityFirst(data) ==
    VoltageStability(data) \o EnergyTrend(data) \o NightLoad(data) \o VoltageFloor(data)
        \o VoltageCeiling(data) \o PowerFactorInsight(data) \o PeakDemand(data)

\* the pushes of lines 24-105, in the order of the code
Pushed(data) ==
    EnergyTrend(data) \o NightLoad(data) \o VoltageFloor(data) \o VoltageCeiling(data)
        \o PowerFactorInsight(data) \o PeakDemand(data) \o VoltageStability(data)

EnergyEfficiencyTipAlways(pushed) == pushed \o << AllNormal >>

\* Energy efficiency tip: insights.length === 0
EnergyEfficiencyTip(pushed) == IF Len(pushed) = 0 THEN << AllNormal >> ELSE pushed

generateInsights(deviceId, data) == EnergyEfficiencyTip(Pushed(data))

\* The statistics a caller may hand over: around every threshold, the two
\* examples of the energy trend (100 after 80, 80 after 100), and a
\* yesterday without consumption.
EnergyLevels == {0, 80, 84, 85, 100, 115, 116}
NightLoads == {150, 151}
Voltages == {20000, 20699, 20700, 23800, 23801, 25300, 25301, 26000}
PowerFactorLevels == {849, 850, 950, 951}
PeakPowers == {5000, 5001}
DeviceIds == {"ESP32_001"}

InsightsData ==
    { d \in [currentEnergy : EnergyLevels, yesterdayEnergy : EnergyLevels,
             minVoltage : Voltages, maxVoltage : Voltages,
             nightTimeLoad : NightLoads, peakPower : PeakPowers,
             powerFactor : PowerFactorLevels] :
        d.minVoltage <= d.maxVoltage }

InitInsights ==
    /\ stats = NoData
    /\ insights = NoData
    /\ request = NoRequest
    /\ result = NoRequest
    /\ today = 0
    /\ clock = [minute |-> 720, zone |-> UTC]
    /\ tasks = << >>
    /\ heap = << >>
    /\ FunctionsIdle
    /\ ServerIdle

\* a caller gathers the statistics and calls generateInsights
CallInsights ==
    /\ stats = NoData
    /\ \E deviceId \in DeviceIds, data \in InsightsData :
          stats' = [kind |-> "call", deviceId |-> deviceId, data |-> data]
    /\ insights' = Pending
    /\ UNCHANGED outsideInsights

\* InsightsService.generateInsights, from entry to the resolution of its promise
GenerateInsights ==
    /\ stats # NoData
    /\ insights = Pending
    /\ insights' = [kind |-> "list", list |-> generateInsights(stats.deviceId, stats.data)]
    /\ UNCHANGED stats
    /\ UNCHANGED outsideInsights

\* the caller consumes the list
ReturnInsights ==
    /\ stats # NoData
    /\ insights # Pending
    /\ stats' = NoData
    /\ insights' = NoData
    /\ UNCHANGED outsideInsights

NextInsights ==
    \/ CallInsights
    \/ GenerateInsights
    \/ ReturnInsights

SpecInsights == InitInsights /\ [][NextInsights]_vars

----------------------------------------------------------------------------
(* InsightsService.detectPhaseImbalance and InsightsService.checkBudgetStatus

   Numbers.  Phase contributions are in tenths of a percent, costs and
   budgets in hundredths of a rupee.  Both functions return an Insight or
   null: a sequence of one insight, or of none. *)

\* x < n, for an integer n: false for NaN
Below(x, n) ==
    IF x.kind = "finite" THEN x.num < n * x.den
    ELSE x.kind = "-Infinity"

Magnitude(n) == IF n < 0 THEN -n ELSE n

Max(a, b) == IF a >= b THEN a ELSE b

detectPhaseImbalanceOfFirstPhase(phase1, phase2, phase3) ==
    LET thirds == phase1 + phase2 + phase3
        deviationPercent == PercentOf(Magnitude(3 * phase1 - thirds), thirds)
    IN  IF Exceeds(deviationPercent, 15)
        THEN << Insight("Phase imbalance detected: {}% deviation. Balance loads across phases for optimal efficiency.",
                        <<Printed(deviationPercent)>>, "warning", "balance scale") >>
        ELSE << >>

detectPhaseImbalanceUnlessWithin(phase1, phase2, phase3) ==
    LET thirds == phase1 + phase2 + phase3
        maxDeviation == Max(Magnitude(3 * phase1 - thirds),
                            Max(Magnitude(3 * phase2 - thirds),
                                Magnitude(3 * phase3 - thirds)))
        deviationPercent == PercentOf(maxDeviation, thirds)
    IN  IF deviationPercent.kind = "finite" /\ ~Exceeds(deviationPercent, 15)
        THEN << >>
        ELSE << Insight("Phase imbalance detected: {}% deviation. Balance loads across phases for optimal efficiency.",
                        <<Printed(deviationPercent)>>, "warning", "balance scale") >>

\* average is (phase1 + phase2 + phase3) / 3: deviations and average are
\* kept as thirds, which their quotient does not see
detectPhaseImbalance(phase1, phase2, phase3) ==
    LET thirds == phase1 + phase2 + phase3
        maxDeviation == Max(Magnitude(3 * phase1 - thirds),
                            Max(Magnitude(3 * phase2 - thirds),
                                Magnitude(3 * phase3 - thirds)))
        deviationPercent == PercentOf(maxDeviation, thirds)
    IN  IF Exceeds(deviationPercent, 15)
        THEN << Insight("Phase imbalance detected: {}% deviation. Balance loads across phases for optimal efficiency.",
                        <<Printed(deviationPercent)>>, "warning", "balance scale") >>
        ELSE << >>

checkBudgetStatusInclusive(currentCost, monthlyBudget, dayOfMonth) ==
    LET expectedSpend == monthlyBudget * dayOfMonth
        variance == PercentOf(daysInMonth * currentCost - expectedSpend, expectedSpend)
    IN  IF ~Below(variance, 20) /\ variance.kind # "NaN"
        THEN << Insight("You're {}% over budget for this point in the month. Current: Rs {}, Expected: Rs {}",
                        <<Printed(variance), Fixed(currentCost, 1, 2),
                          Fixed(expectedSpend, daysInMonth, 2)>>,
                        "warning", "money bag") >>
        ELSE IF ~Exceeds(variance, -20) /\ variance.kind # "NaN"
        THEN << Insight("Great job! You're {}% under budget this month.",
                        <<Printed(Abs(variance))>>, "info", "banknote") >>
        ELSE << >>

\* expectedSpend is (monthlyBudget / 30) * dayOfMonth: spend and cost are
\* kept as thirtieths, which their quotient does not see
checkBudgetStatus(currentCost, monthlyBudget, dayOfMonth) ==
    LET expectedSpend == monthlyBudget * dayOfMonth
        variance == PercentOf(daysInMonth * currentCost - expectedSpend, expectedSpend)
    IN  IF Exceeds(variance, 20)
        THEN << Insight("You're {}% over budget for this point in the month. Current: Rs {}, Expected: Rs {}",
                        <<Printed(variance), Fixed(currentCost, 1, 2),
                          Fixed(expectedSpend, daysInMonth, 2)>>,
                        "warning", "money bag") >>
        ELSE IF Below(variance, -20)
        THEN << Insight("Great job! You're {}% under budget this month.",
                        <<Printed(Abs(variance))>>, "info", "banknote") >>
        ELSE << >>

----------------------------------------------------------------------------
(* Request handlers running concurrently on the event loop.

   A handler runs from one await to the next without interruption; other
   handlers run in between.  Objects live in a memory of addresses; a
   handler holds the address of what its call returned. *)

Handlers == 1 .. MaxHandlers

Free == [kind |-> "free"]
Object(value) == [kind |-> "object", value |-> value]

SameArray(memory) == 1

\* `const insights: Insight[] = []` and the object literals of the returns:
\* a new object, at an address nothing lives at
New(memory) ==
    CHOOSE a \in Handlers :
        /\ memory[a].kind = "free"
        /\ \A b \in Handlers : b < a => memory[b].kind # "free"

Idle == [pc |-> "idle"]

ConcurrentRequests ==
    [totalEnergy : {45678},
     connectionCategory : {"domestic-3phase", "industrial-3phase"},
     maxDemandKVA : {Some(2000)},
     averagePowerFactor : {Some(80)}]

ConcurrentData ==
    [currentEnergy : {100}, yesterdayEnergy : {80, 100},
     minVoltage : {23000}, maxVoltage : {23000},
     nightTimeLoad : {150}, peakPower : {5000}, powerFactor : {850}]

\* the phase contributions the database returns: of three phases, or of fewer
PhaseReadings == {Undefined, Some(<<333, 333, 334>>), Some(<<500, 300, 200>>)}

BudgetChecks ==
    [currentCost : {100000, 300000}, monthlyBudget : {300000}, dayOfMonth : {15}]

InitConcurrent ==
    /\ tasks = [h \in Handlers |-> Idle]
    /\ heap = [a \in Handlers |-> Free]
    /\ request = NoRequest
    /\ result = NoRequest
    /\ today = 0
    /\ clock = [minute |-> 720, zone |-> UTC]
    /\ stats = NoData
    /\ insights = NoData
    /\ FunctionsIdle
    /\ ServerIdle

\* POST /api/dashboard/calculate-bill: no await between the call and the response
CallCalculateBill ==
    \E h \in Handlers :
        /\ tasks[h].pc = "idle"
        /\ \E req \in ConcurrentRequests :
              LET ref == New(heap)
              IN  /\ heap' = [heap EXCEPT ![ref] = Object(calculateBill(req, Now))]
                  /\ tasks' = [tasks EXCEPT ![h] =
                                  [pc |-> "respond", op |-> "calculateBill",
                                   args |-> req, at |-> Now, ref |-> ref]]
        /\ UNCHANGED outsideTasks

\* a caller of checkBudgetStatus
CallCheckBudgetStatus ==
    \E h \in Handlers :
        /\ tasks[h].pc = "idle"
        /\ \E check \in BudgetChecks :
              LET ref == New(heap)
              IN  /\ heap' = [heap EXCEPT ![ref] =
                                Object(checkBudgetStatus(check.currentCost,
                                           check.monthlyBudget, check.dayOfMonth))]
                  /\ tasks' = [tasks EXCEPT ![h] =
                                  [pc |-> "respond", op |-> "checkBudgetStatus",
                                   args |-> check, ref |-> ref]]
        /\ UNCHANGED outsideTasks

\* GET /api/dashboard/insights up to `await insightsService.generateInsights(..)`:
\* the body of generateInsights runs to its return, the handler awaits the promise
CallGenerateInsights ==
    \E h \in Handlers :
        /\ tasks[h].pc = "idle"
        /\ \E deviceId \in DeviceIds, data \in ConcurrentData :
              LET ref == New(heap)
              IN  /\ heap' = [heap EXCEPT ![ref] = Object(generateInsights(deviceId, data))]
                  /\ tasks' = [tasks EXCEPT ![h] =
                                  [pc |-> "awaitInsights", op |-> "generateInsights",
                                   args |-> [deviceId |-> deviceId, data |-> data],
                                   ref |-> ref, phases |-> Undefined]]
        /\ UNCHANGED outsideTasks

\* the handler resumes with the list and awaits getPhaseContributions
AwaitPhaseContributions ==
    \E h \in Handlers :
        /\ tasks[h].pc = "awaitInsights"
        /\ tasks' = [tasks EXCEPT ![h].pc = "awaitPhases"]
        /\ UNCHANGED heap
        /\ UNCHANGED outsideTasks

\* the handler resumes with the phase data, calls detectPhaseImbalance when
\* there are three phases and pushes its insight onto the list it holds
PushImbalance ==
    \E h \in Handlers :
        /\ tasks[h].pc = "awaitPhases"
        /\ \E phases \in PhaseReadings :
              LET imbalanceInsight ==
                      IF phases = Undefined THEN << >>
                      ELSE detectPhaseImbalance(phases[1][1], phases[1][2], phases[1][3])
              IN  /\ heap' = [heap EXCEPT ![tasks[h].ref] =
                                Object(heap[tasks[h].ref].value \o imbalanceInsight)]
                  /\ tasks' = [tasks EXCEPT ![h].pc = "respond", ![h].phases = phases]
        /\ UNCHANGED outsideTasks

\* res.status(200).json(..): the handler ends and what it held is garbage
Respond ==
    \E h \in Handlers :
        /\ tasks[h].pc = "respond"
        /\ tasks' = [tasks EXCEPT ![h] = Idle]
        /\ heap' = [heap EXCEPT ![tasks[h].ref] = Free]
        /\ UNCHANGED outsideTasks

\* midnight passes while handlers are under way
TickConcurrent ==
    /\ today < MaxDay
    /\ today' = today + 1
    /\ UNCHANGED <<request, result, clock, stats, insights, tasks, heap>>
    /\ UNCHANGED <<functionVars, serverVars>>

NextConcurrent ==
    \/ CallCalculateBill
    \/ CallCheckBudgetStatus
    \/ CallGenerateInsights
    \/ AwaitPhaseContributions
    \/ PushImbalance
    \/ Respond
    \/ TickConcurrent

SpecConcurrent == InitConcurrent /\ [][NextConcurrent]_vars

----------------------------------------------------------------------------
(* ThreePhasePowerService.getPhaseContributions, and the single functions
   called on their own.

   Numbers.  The energy of a phase is a whole number of Wh; a contribution
   is in tenths of a percent (parseFloat(contribution.toFixed(1))). *)

RECURSIVE Sum(_)
Sum(seq) == IF seq = << >> THEN 0 ELSE Head(seq) + Sum(Tail(seq))

getPhaseContributionsTruncated(rows) ==
    LET totalEnergy == Sum(rows)
    IN  [i \in 1 .. Len(rows) |->
            IF totalEnergy > 0 THEN (rows[i] * 1000) \div totalEnergy ELSE 0]

\* rows: the total energy of each phase the query returns, in the order of
\* the rows; the result: the contribution of each
getPhaseContributions(rows) ==
    LET totalEnergy == Sum(rows)
    IN  [i \in 1 .. Len(rows) |->
            IF totalEnergy > 0 THEN Nearest(rows[i] * 1000, totalEnergy) ELSE 0]

\* contributions around an imbalance of 15%, the examples (40, 30, 30) and
\* (34, 33, 33), and 115/100/85, whose deviation is 15% exactly
Contributions == {0, 283, 284, 300, 330, 333, 334, 340, 383, 384, 400, 850, 1000, 1150}

\* costs at, next to and away from 80% and 120% of the expected spend of
\* half a month of a budget of Rs 3000
Costs == {0, 1, 119999, 120000, 150000, 180000, 180001, 300000}
Budgets == {0, 300000}
DaysOfMonth == {1, 15, 30}

PhaseEnergies == {0, 1, 5, 333, 500, 1000}
PhaseRows ==
    UNION { [1 .. n -> PhaseEnergies] : n \in 1 .. 3 }

InitFunctions ==
    /\ called = NoData
    /\ returned = NoData
    /\ request = NoRequest
    /\ result = NoRequest
    /\ today = 0
    /\ clock = [minute |-> 720, zone |-> UTC]
    /\ stats = NoData
    /\ insights = NoData
    /\ tasks = << >>
    /\ heap = << >>
    /\ ServerIdle

\* a caller hands detectPhaseImbalance three contributions
InvokeDetectPhaseImbalance ==
    /\ called = NoData
    /\ \E phase1 \in Contributions, phase2 \in Contributions, phase3 \in Contributions :
          called' = [kind |-> "detectPhaseImbalance",
                     phase1 |-> phase1, phase2 |-> phase2, phase3 |-> phase3]
    /\ returned' = Pending
    /\ UNCHANGED outsideFunctions

\* InsightsService.detectPhaseImbalance, from entry to return
DetectPhaseImbalance ==
    /\ called.kind = "detectPhaseImbalance"
    /\ returned = Pending
    /\ returned' = [kind |-> "value",
                    value |-> detectPhaseImbalance(called.phase1, called.phase2,
                                                   called.phase3)]
    /\ UNCHANGED called
    /\ UNCHANGED outsideFunctions

\* a caller hands checkBudgetStatus a cost, a budget and a day of the month
InvokeCheckBudgetStatus ==
    /\ called = NoData
    /\ \E currentCost \in Costs, monthlyBudget \in Budgets, dayOfMonth \in DaysOfMonth :
          called' = [kind |-> "checkBudgetStatus", currentCost |-> currentCost,
                     monthlyBudget |-> monthlyBudget, dayOfMonth |-> dayOfMonth]
    /\ returned' = Pending
    /\ UNCHANGED outsideFunctions

\* InsightsService.checkBudgetStatus, from entry to return
CheckBudgetStatus ==
    /\ called.kind = "checkBudgetStatus"
    /\ returned = Pending
    /\ returned' = [kind |-> "value",
                    value |-> checkBudgetStatus(called.currentCost, called.monthlyBudget,
                                                called.dayOfMonth)]
    /\ UNCHANGED called
    /\ UNCHANGED outsideFunctions

\* a caller asks for the phase contributions of a device; the query returns
\* a row for each phase that has readings
InvokeGetPhaseContributions ==
    /\ called = NoData
    /\ \E rows \in PhaseRows :
          called' = [kind |-> "getPhaseContributions", rows |-> rows]
    /\ returned' = Pending
    /\ UNCHANGED outsideFunctions

\* ThreePhasePowerService.getPhaseContributions, from entry to the resolution
\* of its promise
GetPhaseContributions ==
    /\ called.kind = "getPhaseContributions"
    /\ returned = Pending
    /\ returned' = [kind |-> "value", value |-> getPhaseContributions(called.rows)]
    /\ UNCHANGED called
    /\ UNCHANGED outsideFunctions

\* the caller consumes what the function returned
ReturnFunction ==
    /\ called # NoData
    /\ returned # Pending
    /\ called' = NoData
    /\ returned' = NoData
    /\ UNCHANGED outsideFunctions

NextFunctions ==
    \/ InvokeDetectPhaseImbalance
    \/ DetectPhaseImbalance
    \/ InvokeCheckBudgetStatus
    \/ CheckBudgetStatus
    \/ InvokeGetPhaseContributions
    \/ GetPhaseContributions
    \/ ReturnFunction

SpecFunctions == InitFunctions /\ [][NextFunctions]_vars

----------------------------------------------------------------------------
(* POST /api/dashboard/calculate-bill

   A field of a JSON body is missing, a number or a string. *)

Missing == [type |-> "undefined"]
Num(n) == [type |-> "number", n |-> n]
Str(s) == [type |-> "string", s |-> s]

\* !value
Falsy(value) ==
    \/ value.type = "undefined"
    \/ value.type = "number" /\ value.n = 0
    \/ value.type = "string" /\ value.s = ""

\* the device ids that match /^[a-zA-Z0-9-_]+$/, of those the bodies carry
deviceIdPattern == {"ESP32-A1B2C3"}

BadRequest(message) ==
    [status |-> 400, success |-> FALSE, code |-> "INVALID_PARAMETERS",
     message |-> message, data |-> NoRequest]

\* the middleware: the response it ends the request with, or NoRequest when
\* it calls next()
validateDeviceId(req) ==
    IF Falsy(req.deviceId)
    THEN BadRequest("deviceId parameter is required")
    ELSE IF req.deviceId.type # "string" \/ req.deviceId.s \notin deviceIdPattern
    THEN BadRequest("Invalid deviceId format")
    ELSE NoRequest

\* the numbers and strings of the body as calculateBill reads them
AsRequest(requestData) ==
    [totalEnergy |-> requestData.totalEnergy.n,
     connectionCategory |-> requestData.connectionCategory.s,
     maxDemandKVA |-> requestData.maxDemandKVA,
     averagePowerFactor |-> requestData.averagePowerFactor]

\* !requestData.totalEnergy || typeof requestData.totalEnergy !== 'number'
TotalEnergyRejected(requestData) ==
    Falsy(requestData.totalEnergy) \/ requestData.totalEnergy.type # "number"

\* the handler's answer to a body that passed the middleware, with the call
\* of calculateBill it made, if any
CalculateBillHandler(requestData, now) ==
    IF TotalEnergyRejected(requestData)
    THEN [called |-> NoRequest, returned |-> NoRequest,
          response |-> BadRequest("totalEnergy is required and must be a number")]
    ELSE IF Falsy(requestData.connectionCategory)
    THEN [called |-> NoRequest, returned |-> NoRequest,
          response |-> BadRequest("connectionCategory is required")]
    ELSE LET billData == calculateBill(AsRequest(requestData), now)
         IN  [called |-> AsRequest(requestData), returned |-> billData,
              response |->
                  IF billData.kind = "error"
                  THEN [status |-> 500, success |-> FALSE, code |-> "CALCULATION_ERROR",
                        message |-> billData.message, data |-> NoRequest]
                  ELSE [status |-> 200, success |-> TRUE, code |-> "", message |-> "",
                        data |-> billData]]

Bodies ==
    [deviceId : {Missing, Str("ESP32-A1B2C3"), Str("bad id!")},
     totalEnergy : {Missing, Num(0), Num(100000), Num(-10), Str("100"), Str("")},
     connectionCategory : {Missing, Str(""), Str("domestic-3phase"),
                           Str("industrial-3phase"), Str("single-phase")},
     maxDemandKVA : {Undefined, Some(2000)},
     averagePowerFactor : {Undefined, Some(80)}]

InitEndpoint ==
    /\ ServerIdle
    /\ FunctionsIdle
    /\ request = NoRequest
    /\ result = NoRequest
    /\ today = 0
    /\ clock = [minute |-> 720, zone |-> UTC]
    /\ stats = NoData
    /\ insights = NoData
    /\ tasks = << >>
    /\ heap = << >>

\* a request arrives and runs through validateDeviceId and the handler, which
\* has no await, to its response
PostCalculateBill ==
    /\ body = NoRequest
    /\ \E requestData \in Bodies :
          LET stopped == validateDeviceId(requestData)
              handled == CalculateBillHandler(requestData, Now)
          IN  /\ body' = requestData
              /\ response' = (IF stopped # NoRequest THEN stopped ELSE handled.response)
              /\ request' = (IF stopped # NoRequest THEN NoRequest ELSE handled.called)
              /\ result' = (IF stopped # NoRequest THEN NoRequest ELSE handled.returned)
    /\ UNCHANGED <<today, clock, stats, insights, tasks, heap, functionVars,
                   gsmLogs, received>>

\* the response is sent and the request is over
SendResponse ==
    /\ body # NoRequest
    /\ body' = NoRequest
    /\ response' = NoRequest
    /\ request' = NoRequest
    /\ result' = NoRequest
    /\ UNCHANGED <<today, clock, stats, insights, tasks, heap, functionVars,
                   gsmLogs, received>>

NextEndpoint ==
    \/ PostCalculateBill
    \/ SendResponse

SpecEndpoint == InitEndpoint /\ [][NextEndpoint]_vars

----------------------------------------------------------------------------
(* POST /api/gsm-test and GET /api/gsm-logs

   What a GSM module posts is taken to carry its running number, which
   tells the entries apart; the time of receipt is the clock's day. *)

LogLimit == 100

LoggedDroppingNewest(logs, entry) ==
    IF Len(logs) + 1 > LogLimit THEN logs ELSE Append(logs, entry)

\* gsmLogs.push(entry); if (gsmLogs.length > 100) gsmLogs.shift()
Logged(logs, entry) ==
    LET pushed == Append(logs, entry)
    IN  IF Len(pushed) > LogLimit THEN Tail(pushed) ELSE pushed

InitGsm ==
    /\ ServerIdle
    /\ FunctionsIdle
    /\ request = NoRequest
    /\ result = NoRequest
    /\ today = 0
    /\ clock = [minute |-> 720, zone |-> UTC]
    /\ stats = NoData
    /\ insights = NoData
    /\ tasks = << >>
    /\ heap = << >>

\* POST /api/gsm-test, from the request to its response
PostGsmTest ==
    /\ body = NoRequest
    /\ Len(received) < MaxPosts
    /\ LET entry == [receivedAt |-> toISOString(Now), ip |-> "unknown",
                     data |-> Len(received) + 1]
       IN  /\ body' = [kind |-> "POST /api/gsm-test", data |-> entry.data]
           /\ gsmLogs' = Logged(gsmLogs, entry)
           /\ received' = Append(received, entry)
           /\ response' = [status |-> 200, result |-> "SUCCESS",
                           serverTime |-> entry.receivedAt,
                           totalLogs |-> Len(Logged(gsmLogs, entry)),
                           receivedData |-> entry.data]
    /\ UNCHANGED outsideServer

\* GET /api/gsm-logs, from the request to its response
GetGsmLogs ==
    /\ body = NoRequest
    /\ body' = [kind |-> "GET /api/gsm-logs"]
    /\ response' = [status |-> 200, totalLogs |-> Len(gsmLogs), logs |-> gsmLogs]
    /\ UNCHANGED <<gsmLogs, received>>
    /\ UNCHANGED outsideServer

\* the response is sent and the request is over
SendGsmResponse ==
    /\ body # NoRequest
    /\ body' = NoRequest
    /\ response' = NoRequest
    /\ UNCHANGED <<gsmLogs, received>>
    /\ UNCHANGED outsideServer

NextGsm ==
    \/ PostGsmTest
    \/ GetGsmLogs
    \/ SendGsmResponse

SpecGsm == InitGsm /\ [][NextGsm]_vars

----------------------------------------------------------------------------
(* Vocabulary of the properties *)

IsBill == result.kind = "bill"
Returned == request # NoRequest /\ result # Pending
BillFor(category) == IsBill /\ request.connectionCategory = category

RECURSIVE SumOf(_, _)
SumOf(seq, field) ==
    IF seq = <<>> THEN 0 ELSE Head(seq)[field] + SumOf(Tail(seq), field)

\* s*n/d rounded to the nearest integer, halves away from zero, computed
\* without forming s*n (n >= 0, d > 0 even)
NearestOfProduct(s, n, d) ==
    LET a == IF s >= 0 THEN s ELSE -s
        v == (a \div d) * n + (((a % d) * n + (d \div 2)) \div d)
    IN  IF s >= 0 THEN v ELSE -v

\* width in thousandths of a kWh of the first i slabs: 30, 30, 30, 30, 60 kWh
WidthBefore(i) ==
    CASE i = 1 -> 0 [] i = 2 -> 30000 [] i = 3 -> 60000 [] i = 4 -> 90000
      [] i = 5 -> 120000 [] i = 6 -> 180000

SlabRates == <<785, 1500, 2000, 3000, 4200, 5000>>

\* the number of slabs that still have energy left to bill when reached
SlabsReached(e) == Cardinality({i \in 1 .. 6 : WidthBefore(i) < e})

\* the units of energy e that fall into slab i, in thousandths
UnitsIn(e, i) ==
    IF i = 6 THEN e - WidthBefore(6)
    ELSE Min(e - WidthBefore(i), WidthBefore(i + 1) - WidthBefore(i))

\* the demand and the power factor the strategies are called with
UsedDemand ==
    IF request.maxDemandKVA = Undefined THEN 0 ELSE request.maxDemandKVA[1]

----------------------------------------------------------------------------
(* C1 *)

\* C1 as stated: for every totalEnergy >= 0 the units of the domestic
\* breakdown entries sum to exactly totalEnergy.
C1_UnitsSumExactly ==
    (BillFor("domestic-3phase") /\ request.totalEnergy >= 0)
        => SumOf(result.breakdown, "units") * UnitScale = request.totalEnergy

\* C1 amended: for every totalEnergy >= 0 the units of the domestic breakdown
\* entries sum to totalEnergy rounded to two decimals, so to totalEnergy itself
\* when it has no more than two decimals.
C1_UnitsSumToRoundedEnergy ==
    (BillFor("domestic-3phase") /\ request.totalEnergy >= 0)
        => /\ SumOf(result.breakdown, "units") = Nearest(request.totalEnergy, 10)
           /\ (request.totalEnergy % 10 = 0
                 => SumOf(result.breakdown, "units") * 10 = request.totalEnergy)

\* 45.678 kWh: two slabs, 30.00 + 15.68
C1_Witness ==
    /\ BillFor("domestic-3phase")
    /\ request.totalEnergy = 45678
    /\ Len(result.breakdown) = 2
    /\ SumOf(result.breakdown, "units") = 4568

----------------------------------------------------------------------------
(* C2 *)

\* C2 as stated: for all three categories the returned totalAmount equals the
\* sum of the returned breakdown amounts, fixedCharges, demandCharges and
\* powerFactorAdjustment (a sum of two-decimal values, so its own rounding).
C2_TotalIsSumOfReturnedComponents ==
    (IsBill /\ request.totalEnergy >= 0)
        => result.totalAmount =
              SumOf(result.breakdown, "amount") + result.fixedCharges
                + result.demandCharges + result.powerFactorAdjustment

----------------------------------------------------------------------------
(* C3 *)

\* C3 as stated: the domestic breakdown walks the slabs in order; each
\* emitted entry bills min(remaining, slab width) units at the slab's rate,
\* every slab before the last emitted one at its full width, no entry has
\* zero units; 30.0 kWh gives one entry and 30.01 kWh gives two.
C3_SlabWalkExact ==
    BillFor("domestic-3phase") =>
        LET e == request.totalEnergy
            b == result.breakdown
        IN  /\ Len(b) <= 6
            /\ \A i \in 1 .. Len(b) :
                  /\ b[i].rate = SlabRates[i]
                  /\ b[i].units * 10 = UnitsIn(e, i)
                  /\ b[i].units > 0
                  /\ b[i].amount * 1000 = UnitsIn(e, i) * SlabRates[i]
                  /\ (i < Len(b) => b[i].units * 10 = WidthBefore(i + 1) - WidthBefore(i))
            /\ (e = 30000 => Len(b) = 1)
            /\ (e = 30010 => Len(b) = 2)

\* C3 amended: the domestic breakdown walks the slabs in order and emits an
\* entry for exactly the slabs reached with energy remaining; each entry shows
\* min(remaining, slab width) rounded to two decimals as its units and that
\* unrounded quantity times the slab's rate, rounded to two decimals, as its
\* amount; every slab before the last emitted one is billed at its full width;
\* an entry can show 0.00 units only when less than 0.005 kWh reaches its slab;
\* 30.0 kWh gives one entry and 30.01 kWh gives two.
C3_SlabWalkRounded ==
    BillFor("domestic-3phase") =>
        LET e == request.totalEnergy
            b == result.breakdown
        IN  /\ Len(b) = SlabsReached(e)
            /\ \A i \in 1 .. Len(b) :
                  /\ b[i].rate = SlabRates[i]
                  /\ b[i].units = Nearest(UnitsIn(e, i), 10)
                  /\ b[i].amount = Nearest(UnitsIn(e, i) * SlabRates[i], 1000)
                  /\ UnitsIn(e, i) > 0
                  /\ (b[i].units = 0 => UnitsIn(e, i) < 5)
                  /\ (i < Len(b) => b[i].units * 10 = WidthBefore(i + 1) - WidthBefore(i))
            /\ (e = 30000 => Len(b) = 1)
            /\ (e = 30010 => Len(b) = 2)

\* 30.004 kWh: the second slab is reached and its entry shows 0.00 units
C3_Witness ==
    /\ BillFor("domestic-3phase")
    /\ request.totalEnergy = 30004
    /\ Len(result.breakdown) = 2
    /\ result.breakdown[1].units = 3000
    /\ result.breakdown[2].units = 0
    /\ result.breakdown[2].amount = 6

----------------------------------------------------------------------------
(* C4 *)

\* C4: the domestic fixed charge is 150.00 up to and including 60 kWh, 350.00
\* up to 90, 600.00 up to 120, 750.00 up to 180 and 1000.00 above; 60.0 kWh
\* gives 150.00 and 60.01 kWh gives 350.00.
C4_FixedChargeSteps ==
    BillFor("domestic-3phase") =>
        LET e == request.totalEnergy
        IN  /\ (e <= 60000 => result.fixedCharges = 15000)
            /\ (e > 60000 /\ e <= 90000 => result.fixedCharges = 35000)
            /\ (e > 90000 /\ e <= 120000 => result.fixedCharges = 60000)
            /\ (e > 120000 /\ e <= 180000 => result.fixedCharges = 75000)
            /\ (e > 180000 => result.fixedCharges = 100000)

\* 60.01 kWh is charged 350.00
C4_Witness ==
    /\ BillFor("domestic-3phase")
    /\ request.totalEnergy = 60010
    /\ result.fixedCharges = 35000

----------------------------------------------------------------------------
(* C5 *)

\* C5: whenever connectionCategory is none of the three known categories,
\* calculateBill throws 'Invalid connection category' and returns no bill,
\* whatever the other fields of the request are.
C5_UnknownCategoryThrows ==
    (Returned /\ request.connectionCategory \notin Categories)
        => /\ result.kind = "error"
           /\ result.message = "Invalid connection category"
           /\ ~IsBill

\* an unknown category with every other field in order
C5_Witness ==
    /\ Returned
    /\ request.connectionCategory = "single-phase"
    /\ request.totalEnergy = 100000
    /\ request.maxDemandKVA = Some(2000)
    /\ request.averagePowerFactor = Some(90)
    /\ result.kind = "error"

----------------------------------------------------------------------------
(* C6 *)

\* C6 as stated: for every known category calculateBill fails, and returns
\* no bill, whenever totalEnergy is negative.
C6_NegativeEnergyFails ==
    (Returned /\ request.connectionCategory \in Categories /\ request.totalEnergy < 0)
        => (result.kind = "error" /\ ~IsBill)

----------------------------------------------------------------------------
(* C7 *)

\* the energy + demand subtotal of the request at the given rates, in money units
Subtotal(energyRate, demandRate) ==
    request.totalEnergy * energyRate + UsedDemand * demandRate

\* C7: in a general-purpose bill the power-factor adjustment is the subtotal
\* (energy charge + demand charge) times (0.85 - powerFactor) when the power
\* factor used is below 0.85 and 0 otherwise, 0 at exactly 0.85; with a
\* non-negative subtotal it is never negative; a subtotal of 1000 at power
\* factor 0.80 gives 50.00.
C7_GeneralPurposePenaltyOnly ==
    /\ ToFixed(GeneralPurposePfAdjustment(Rs(1000), 80), MoneyScale) = 5000
    /\ ToFixed(GeneralPurposePfAdjustment(Rs(1000), 85), MoneyScale) = 0
    /\ BillFor("general-purpose-3phase") =>
          LET s == Subtotal(2850, 45000)
              pf == result.powerFactor
              adj == result.powerFactorAdjustment
          IN  /\ (pf < 85 => adj = NearestOfProduct(s, 85 - pf, 100000))
              /\ (pf >= 85 => adj = 0)
              /\ (s >= 0 => adj >= 0)

\* 100 kWh at power factor 0.80: 5% of 2850.00
C7_Witness ==
    /\ BillFor("general-purpose-3phase")
    /\ request.totalEnergy = 100000
    /\ request.maxDemandKVA = Some(0)
    /\ request.averagePowerFactor = Some(80)
    /\ result.powerFactorAdjustment = 14250

----------------------------------------------------------------------------
(* C8 *)

\* C8: in an industrial bill exactly one of penalty, incentive or zero
\* applies: below power factor 0.85 the adjustment is subtotal * (0.85 - pf)
\* * 1.5, above 0.90 it is -(subtotal) * (pf - 0.90) * 0.5, and from 0.85 to
\* 0.90, both ends included, it is 0; with a non-negative subtotal the penalty
\* is not negative and the incentive not positive; a subtotal of 1000 at
\* power factor 0.95 gives -25.00.
C8_IndustrialPenaltyOrIncentive ==
    BillFor("industrial-3phase") =>
        LET s == Subtotal(2450, 55000)
            pf == result.powerFactor
            adj == result.powerFactorAdjustment
        IN  /\ (pf < 85 => adj = NearestOfProduct(s, (85 - pf) * 3, 200000))
            /\ (pf > 90 => adj = -NearestOfProduct(s, pf - 90, 200000))
            /\ (pf >= 85 /\ pf <= 90 => adj = 0)
            /\ (s >= 0 /\ pf < 85 => adj >= 0)
            /\ (s >= Rs(1) /\ pf < 85 => adj > 0)
            /\ (s >= 0 /\ pf > 90 => adj <= 0)
            /\ (s >= Rs(2) /\ pf > 90 => adj < 0)
            /\ (s = Rs(1000) /\ pf = 95 => adj = -2500)

\* 4 kWh and 1.64 kVA make a subtotal of 1000.00; power factor 0.95
C8_Witness ==
    /\ BillFor("industrial-3phase")
    /\ request.totalEnergy = 4000
    /\ request.maxDemandKVA = Some(1640)
    /\ request.averagePowerFactor = Some(95)
    /\ Subtotal(2450, 55000) = Rs(1000)
    /\ result.powerFactorAdjustment = -2500

----------------------------------------------------------------------------
(* C9 *)

\* C9: a domestic bill has demandCharges = 0, powerFactorAdjustment = 0 and
\* maxDemandKVA = 0 whatever maxDemandKVA and averagePowerFactor the request
\* carries, and its totalAmount is the same for every value of those two.
C9_DomesticIgnoresDemandAndPf ==
    BillFor("domestic-3phase") =>
        /\ result.demandCharges = 0
        /\ result.powerFactorAdjustment = 0
        /\ result.maxDemandKVA = 0
        /\ \A md \in MaxDemands, pf \in PowerFactors :
              calculateBill([request EXCEPT !.maxDemandKVA = md,
                                            !.averagePowerFactor = pf],
                            Now).totalAmount = result.totalAmount

\* a domestic request that carries a demand and a low power factor
C9_Witness ==
    /\ BillFor("domestic-3phase")
    /\ request.totalEnergy = 100000
    /\ request.maxDemandKVA = Some(2000)
    /\ request.averagePowerFactor = Some(80)
    /\ result.totalAmount = 218550

----------------------------------------------------------------------------
(* C10 *)

FlatRate == [c \in {"general-purpose-3phase", "industrial-3phase"} |->
                IF c = "general-purpose-3phase" THEN 2850 ELSE 2450]
FlatFixed == [c \in {"general-purpose-3phase", "industrial-3phase"} |->
                IF c = "general-purpose-3phase" THEN 50000 ELSE 150000]
FlatDemandRate == [c \in {"general-purpose-3phase", "industrial-3phase"} |->
                IF c = "general-purpose-3phase" THEN 45000 ELSE 55000]

IsFlatBill ==
    BillFor("general-purpose-3phase") \/ BillFor("industrial-3phase")

\* C10 as stated: a general-purpose or industrial bill has exactly one
\* breakdown entry whose units equal totalEnergy and whose amount is
\* totalEnergy times the flat rate (28.50 resp. 24.50), fixed charge 500.00
\* resp. 1500.00, and demandCharges equal to maxDemand times 450.00 resp.
\* 550.00 (for the non-negative totalEnergy of a valid request).
C10_FlatTariffExact ==
    (IsFlatBill /\ request.totalEnergy >= 0) =>
        LET c == request.connectionCategory
            b == result.breakdown
        IN  /\ Len(b) = 1
            /\ b[1].units * 10 = request.totalEnergy
            /\ b[1].amount * 1000 = request.totalEnergy * FlatRate[c]
            /\ result.fixedCharges = FlatFixed[c]
            /\ result.demandCharges * 1000 = UsedDemand * FlatDemandRate[c]

\* C10 amended: a general-purpose or industrial bill has exactly one
\* breakdown entry, at the flat rate (28.50 resp. 24.50), whose units are
\* totalEnergy rounded to two decimals and whose amount is totalEnergy times
\* the flat rate rounded to two decimals; the fixed charge is 500.00 resp.
\* 1500.00; demandCharges is maxDemand (0 when omitted) times 450.00 resp.
\* 550.00, rounded to two decimals.
C10_FlatTariffRounded ==
    IsFlatBill =>
        LET c == request.connectionCategory
            b == result.breakdown
        IN  /\ Len(b) = 1
            /\ b[1].rate = FlatRate[c]
            /\ b[1].units = Nearest(request.totalEnergy, 10)
            /\ b[1].amount = Nearest(request.totalEnergy * FlatRate[c], 1000)
            /\ result.fixedCharges = FlatFixed[c]
            /\ result.demandCharges = Nearest(UsedDemand * FlatDemandRate[c], 1000)

\* 12.344 kWh and 1.237 kVA, general purpose: 12.34 units, 351.80, 556.65
C10_Witness ==
    /\ BillFor("general-purpose-3phase")
    /\ request.totalEnergy = 12344
    /\ request.maxDemandKVA = Some(1237)
    /\ result.breakdown[1].units = 1234
    /\ result.breakdown[1].amount = 35180
    /\ result.demandCharges = 55665

----------------------------------------------------------------------------
(* C11 *)

\* C11 as stated: the defaults (maxDemand 0, averagePowerFactor 0.90) are used
\* only when the request omits the field; every supplied averagePowerFactor in
\* [0,1], 0 included, is the value echoed as Bill.powerFactor and the value
\* the power-factor adjustment is computed from.
C11_SuppliedPowerFactorUsed ==
    (IsBill /\ request.totalEnergy >= 0) =>
        LET given == request.averagePowerFactor
            pf == IF given = Undefined THEN 90 ELSE given[1]
            adj == result.powerFactorAdjustment
        IN  /\ result.powerFactor = pf
            /\ (request.connectionCategory = "general-purpose-3phase" /\ pf < 85
                  => adj = NearestOfProduct(Subtotal(2850, 45000), 85 - pf, 100000))
            /\ (request.connectionCategory = "industrial-3phase" /\ pf < 85
                  => adj = NearestOfProduct(Subtotal(2450, 55000), (85 - pf) * 3, 200000))

----------------------------------------------------------------------------
(* C12 *)

\* C12 as stated: every bill's dailyCosts has exactly 30 entries, with
\* strictly increasing dates one day apart ending on the current day (taken
\* here as the day toISOString names for the clock's reading), and every
\* entry has the same cost, the bill's totalAmount divided by 30 and
\* rounded to 2 decimals.
C12_ThirtyConsecutiveDays ==
    IsBill =>
        LET dc == result.dailyCosts
        IN  /\ Len(dc) = 30
            /\ \A i \in 1 .. Len(dc) - 1 : dc[i + 1].date = dc[i].date + 1
            /\ dc[Len(dc)].date = toISOString(Now)
            /\ \A i \in 1 .. Len(dc) : dc[i].cost = Nearest(result.totalAmount, 30)

----------------------------------------------------------------------------
(* C13 *)

\* C13 as stated: calculateBill is a pure function of its request; the bill
\* for a request is the same in every field, the dates of dailyCosts
\* included, whenever it is computed: a step of the program never changes
\* what calculateBill returns for any request.
C13_BillIndependentOfTime ==
    [][\A req \in ClockRequests :
          calculateBill(req, Now') = calculateBill(req, Now)]_vars

----------------------------------------------------------------------------
(* Vocabulary of the properties of generateInsights *)

Resolved == insights.kind = "list"

\* the rule an insight of generateInsights comes from, told by its icon; 8 is
\* the "all normal" tip, 0 an insight of another function
RuleOf(insight) ==
    CASE insight.icon \in {"chart increasing", "chart decreasing"} -> 1
      [] insight.icon = "crescent moon" -> 2
      [] insight.icon = "high voltage" -> 3
      [] insight.icon = "warning sign" -> 4
      [] insight.icon \in {"light bulb", "star"} -> 5
      [] insight.icon = "bar chart" -> 6
      [] insight.icon = "electric plug" -> 7
      [] insight.icon = "check mark" -> 8
      [] OTHER -> 0

\* the positions in a list of the insights of rule k
PositionsOf(list, k) == { i \in 1 .. Len(list) : RuleOf(list[i]) = k }

Fired(list, k) == PositionsOf(list, k) # {}

\* the thresholds of rules 2 to 7, as conditions on the statistics
Triggers(data, k) ==
    CASE k = 2 -> data.nightTimeLoad > 150
      [] k = 3 -> data.minVoltage < 20700
      [] k = 4 -> data.maxVoltage > 25300
      [] k = 5 -> data.powerFactor < 850 \/ data.powerFactor > 950
      [] k = 6 -> data.peakPower > 5000
      [] k = 7 -> data.maxVoltage - data.minVoltage > 1500

\* |(current - prior) / prior * 100| > 15, for prior > 0
TrendExceeds15(data) ==
    LET diff == data.currentEnergy - data.yesterdayEnergy
    IN  100 * (IF diff < 0 THEN -diff ELSE diff) > 15 * data.yesterdayEnergy

----------------------------------------------------------------------------
(* C15 *)

\* C15: generateInsights always resolves with a non-empty list.  The info
\* "all normal" insight is in the list exactly when no insight of rules 1-7
\* is, and then it is the only element; it is absent whenever a threshold of
\* rules 2-7 is crossed or the energy changed by more than 15% of a positive
\* yesterday, and it is the whole list when the energy changed by at most 15%
\* of a positive yesterday and no threshold of rules 2-7 is crossed.
C15_AllNormalIffNoRuleFired ==
    (stats # NoData /\ insights # Pending) =>
        /\ Resolved
        /\ Len(insights.list) >= 1
        /\ Fired(insights.list, 8) <=> (\A k \in 1 .. 7 : ~Fired(insights.list, k))
        /\ Fired(insights.list, 8) =>
              /\ Len(insights.list) = 1
              /\ insights.list[1].severity = "info"
              /\ insights.list[1].message
                    = "All systems operating normally. Energy consumption is stable."
        /\ (\E k \in 2 .. 7 : Triggers(stats.data, k)) => ~Fired(insights.list, 8)
        /\ stats.data.yesterdayEnergy > 0 =>
              (Fired(insights.list, 8)
                  <=> /\ ~TrendExceeds15(stats.data)
                      /\ \A k \in 2 .. 7 : ~Triggers(stats.data, k))

\* statistics within every bound, answered by the single "all normal" insight
C15_Witness ==
    /\ Resolved
    /\ stats.data.currentEnergy = 115
    /\ stats.data.yesterdayEnergy = 100
    /\ \A k \in 2 .. 7 : ~Triggers(stats.data, k)
    /\ insights.list = << AllNormal >>

----------------------------------------------------------------------------
(* C16 *)

\* C16 as stated: when yesterdayEnergy is 0, whatever currentEnergy is, the
\* list holds no energy-trend insight and no message prints a NaN or an
\* infinite number.
C16_NoTrendWithoutYesterday ==
    (Resolved /\ stats.data.yesterdayEnergy = 0) =>
        /\ ~Fired(insights.list, 1)
        /\ \A i \in 1 .. Len(insights.list) :
              \A j \in 1 .. Len(insights.list[i].values) :
                  insights.list[i].values[j].kind = "finite"

----------------------------------------------------------------------------
(* C17 *)

\* C17: for yesterdayEnergy > 0 the list holds exactly one energy-trend
\* insight when |(current - prior) / prior * 100| > 15 and none otherwise
\* (none at exactly 15%); it is a warning when current is higher than prior
\* and an info when it is lower.
C17_TrendBeyondFifteenPercent ==
    (Resolved /\ stats.data.yesterdayEnergy > 0) =>
        LET trend == PositionsOf(insights.list, 1)
        IN  /\ Cardinality(trend) = (IF TrendExceeds15(stats.data) THEN 1 ELSE 0)
            /\ \A i \in trend :
                  insights.list[i].severity =
                      (IF stats.data.currentEnergy > stats.data.yesterdayEnergy
                       THEN "warning" ELSE "info")

\* 100 after 80 gives the warning "25% higher", and 115 after 100 gives none
C17_Witness ==
    /\ Resolved
    /\ stats.data.currentEnergy = 100
    /\ stats.data.yesterdayEnergy = 80
    /\ insights.list[1].severity = "warning"
    /\ insights.list[1].values = << [kind |-> "finite", n |-> 25, digits |-> 0] >>
    /\ ~Fired(generateInsights(stats.deviceId,
                  [stats.data EXCEPT !.currentEnergy = 115, !.yesterdayEnergy = 100]), 1)

----------------------------------------------------------------------------
(* C18 *)

\* the statistics with everything but the inputs of rule k at rest
OnlyRule(data, k) ==
    LET quiet == [currentEnergy |-> 100, yesterdayEnergy |-> 100,
                  minVoltage |-> 23000, maxVoltage |-> 23000,
                  nightTimeLoad |-> 0, peakPower |-> 0, powerFactor |-> 900]
    IN  CASE k = 1 -> [quiet EXCEPT !.currentEnergy = data.currentEnergy,
                                    !.yesterdayEnergy = data.yesterdayEnergy]
          [] k = 2 -> [quiet EXCEPT !.nightTimeLoad = data.nightTimeLoad]
          [] k = 3 -> [quiet EXCEPT !.minVoltage = data.minVoltage]
          [] k = 4 -> [quiet EXCEPT !.maxVoltage = data.maxVoltage]
          [] k = 5 -> [quiet EXCEPT !.powerFactor = data.powerFactor]
          [] k = 6 -> [quiet EXCEPT !.peakPower = data.peakPower]
          [] k = 7 -> [quiet EXCEPT !.minVoltage = data.minVoltage,
                                    !.maxVoltage = data.maxVoltage]

\* C18: the insights come in the fixed order of the rules (energy trend,
\* night load, voltage floor, voltage ceiling, power factor, peak demand,
\* voltage stability), no rule contributes more than one, a rule fires
\* exactly when it fires on statistics that keep its own inputs and put all
\* the others at rest, and the list never has more than 7 entries.
C18_FixedOrderIndependentRules ==
    Resolved =>
        /\ \A i \in 1 .. Len(insights.list) - 1 :
              RuleOf(insights.list[i]) < RuleOf(insights.list[i + 1])
        /\ \A k \in 1 .. 7 : Cardinality(PositionsOf(insights.list, k)) <= 1
        /\ \A k \in 1 .. 7 :
              Fired(insights.list, k)
                  <=> Fired(generateInsights(stats.deviceId, OnlyRule(stats.data, k)), k)
        /\ Len(insights.list) <= 7

\* every rule fires at once: seven insights, in the order of the rules
C18_Witness ==
    /\ Resolved
    /\ Len(insights.list) = 7
    /\ \A k \in 1 .. 7 : RuleOf(insights.list[k]) = k

----------------------------------------------------------------------------
(* C19 *)

\* C19: the list holds a critical voltage-floor insight if and only if
\* minVoltage < 207 and a critical voltage-ceiling insight if and only if
\* maxVoltage > 253 (207 and 253 themselves do not trigger), and no insight
\* of another rule is critical.
C19_CriticalOnlyOutsideSafeVoltage ==
    Resolved =>
        /\ Fired(insights.list, 3) <=> stats.data.minVoltage < 20700
        /\ Fired(insights.list, 4) <=> stats.data.maxVoltage > 25300
        /\ \A i \in 1 .. Len(insights.list) :
              insights.list[i].severity = "critical"
                  <=> RuleOf(insights.list[i]) \in {3, 4}

\* just under the floor and just over the ceiling: both critical insights
C19_Witness ==
    /\ Resolved
    /\ stats.data.minVoltage = 20699
    /\ stats.data.maxVoltage = 25301
    /\ Fired(insights.list, 3)
    /\ Fired(insights.list, 4)
    /\ ~Fired(generateInsights(stats.deviceId,
                  [stats.data EXCEPT !.minVoltage = 20700]), 3)
    /\ ~Fired(generateInsights(stats.deviceId,
                  [stats.data EXCEPT !.maxVoltage = 25300]), 4)

----------------------------------------------------------------------------
(* C20 *)

\* C20: the list holds the voltage-stability warning if and only if
\* maxVoltage - minVoltage > 15; whenever both critical voltage insights are
\* in the list the stability warning is there too, after both of them.
C20_StabilityBeyondFifteenVolts ==
    Resolved =>
        /\ Fired(insights.list, 7) <=> stats.data.maxVoltage - stats.data.minVoltage > 1500
        /\ \A i \in PositionsOf(insights.list, 7) : insights.list[i].severity = "warning"
        /\ (Fired(insights.list, 3) /\ Fired(insights.list, 4)) =>
              \E i \in PositionsOf(insights.list, 7) :
                  \A j \in PositionsOf(insights.list, 3) \cup PositionsOf(insights.list, 4) :
                      j < i

\* minVoltage 200 and maxVoltage 260: both critical insights, then the
\* stability warning with its +-30.0 V
C20_Witness ==
    /\ Resolved
    /\ stats.data.minVoltage = 20000
    /\ stats.data.maxVoltage = 26000
    /\ Fired(insights.list, 3)
    /\ Fired(insights.list, 4)
    /\ \E i \in PositionsOf(insights.list, 7) :
          insights.list[i].values = << [kind |-> "finite", n |-> 300, digits |-> 1] >>

----------------------------------------------------------------------------
(* C14 *)

\* what the call of a handler returns when it runs alone, at the time and
\* with the arguments of the call; once the insights handler has pushed the
\* imbalance insight, the list with that insight
Alone(task) ==
    CASE task.op = "calculateBill" -> calculateBill(task.args, task.at)
      [] task.op = "checkBudgetStatus" ->
            checkBudgetStatus(task.args.currentCost, task.args.monthlyBudget,
                              task.args.dayOfMonth)
      [] task.op = "generateInsights" ->
            generateInsights(task.args.deviceId, task.args.data)
                \o (IF task.pc = "respond" /\ task.phases # Undefined
                    THEN detectPhaseImbalance(task.phases[1][1], task.phases[1][2],
                                              task.phases[1][3])
                    ELSE << >>)

\* C14: under every interleaving of concurrent handlers, each call of
\* calculateBill, generateInsights, detectPhaseImbalance and
\* checkBudgetStatus has returned what it returns when it runs alone, what
\* a handler holds is changed by that handler only, and no two handlers
\* hold the same object.
C14_InvocationsShareNothing ==
    \A h \in DOMAIN tasks :
        tasks[h].pc # "idle" =>
            /\ heap[tasks[h].ref].kind = "object"
            /\ heap[tasks[h].ref].value = Alone(tasks[h])
            /\ \A g \in DOMAIN tasks :
                  (g # h /\ tasks[g].pc # "idle") => tasks[g].ref # tasks[h].ref

\* one handler has pushed an imbalance insight onto its list while another
\* still awaits with the list of the same statistics, untouched
C14_Witness ==
    \E h, g \in DOMAIN tasks :
        /\ h # g
        /\ tasks[h].pc = "respond"
        /\ tasks[h].op = "generateInsights"
        /\ tasks[g].pc = "awaitPhases"
        /\ tasks[g].args = tasks[h].args
        /\ Len(heap[tasks[h].ref].value) = Len(heap[tasks[g].ref].value) + 1


----------------------------------------------------------------------------
(* C21 *)

\* C21: the power-factor rule contributes at most one insight: a warning if
\* and only if powerFactor < 0.85, an info if and only if powerFactor > 0.95,
\* nothing for a powerFactor from 0.85 to 0.95, and never both.
C21_PowerFactorRule ==
    Resolved =>
        LET rule == PositionsOf(insights.list, 5)
            warnings == { i \in rule : insights.list[i].severity = "warning" }
            infos == { i \in rule : insights.list[i].severity = "info" }
        IN  /\ Cardinality(rule) <= 1
            /\ rule = warnings \cup infos
            /\ warnings # {} <=> stats.data.powerFactor < 850
            /\ infos # {} <=> stats.data.powerFactor > 950
            /\ (stats.data.powerFactor >= 850 /\ stats.data.powerFactor <= 950) => rule = {}
            /\ ~(warnings # {} /\ infos # {})

\* 0.849 draws the warning, printed as 0.85, while 0.85 itself draws nothing
C21_Witness ==
    /\ Resolved
    /\ stats.data.powerFactor = 849
    /\ \E i \in PositionsOf(insights.list, 5) :
          /\ insights.list[i].severity = "warning"
          /\ insights.list[i].values = << [kind |-> "finite", n |-> 85, digits |-> 2] >>
    /\ ~Fired(generateInsights(stats.deviceId,
                  [stats.data EXCEPT !.powerFactor = 850]), 5)


----------------------------------------------------------------------------
(* Vocabulary of the properties of the single functions *)

Answered(kind) == called # NoData /\ called.kind = kind /\ returned # Pending

\* three times the largest distance of a contribution from the average
MaxDeviationThirds(p1, p2, p3) ==
    LET s == p1 + p2 + p3
        d1 == IF 3 * p1 >= s THEN 3 * p1 - s ELSE s - 3 * p1
        d2 == IF 3 * p2 >= s THEN 3 * p2 - s ELSE s - 3 * p2
        d3 == IF 3 * p3 >= s THEN 3 * p3 - s ELSE s - 3 * p3
    IN  IF d1 >= d2 /\ d1 >= d3 THEN d1 ELSE IF d2 >= d3 THEN d2 ELSE d3

----------------------------------------------------------------------------
(* C22 *)

\* C22: for contributions with a positive average, detectPhaseImbalance
\* returns a warning insight if and only if
\* max(|p_i - average|) / average * 100 > 15 and nothing otherwise, and the
\* result is the same for the three arguments in every order.
C22_ImbalanceBeyondFifteenPercent ==
    (Answered("detectPhaseImbalance")
        /\ called.phase1 + called.phase2 + called.phase3 > 0) =>
        LET p1 == called.phase1
            p2 == called.phase2
            p3 == called.phase3
            beyond == 100 * MaxDeviationThirds(p1, p2, p3) > 15 * (p1 + p2 + p3)
        IN  /\ returned.kind = "value"
            /\ Len(returned.value) = (IF beyond THEN 1 ELSE 0)
            /\ \A i \in 1 .. Len(returned.value) : returned.value[i].severity = "warning"
            /\ detectPhaseImbalance(p1, p3, p2) = returned.value
            /\ detectPhaseImbalance(p2, p1, p3) = returned.value
            /\ detectPhaseImbalance(p2, p3, p1) = returned.value
            /\ detectPhaseImbalance(p3, p1, p2) = returned.value
            /\ detectPhaseImbalance(p3, p2, p1) = returned.value

\* (30, 30, 40) returns the warning with its 20%, and (34, 33, 33) nothing
C22_Witness ==
    /\ Answered("detectPhaseImbalance")
    /\ called.phase1 = 300
    /\ called.phase2 = 300
    /\ called.phase3 = 400
    /\ Len(returned.value) = 1
    /\ returned.value[1].values = << [kind |-> "finite", n |-> 20, digits |-> 0] >>
    /\ detectPhaseImbalance(340, 330, 330) = << >>

----------------------------------------------------------------------------
(* C23 *)

\* C23: when the average of the three contributions is 0, all of them being
\* 0, detectPhaseImbalance returns nothing, not an insight built from a NaN
\* or an infinite deviation.
C23_NoImbalanceWithoutEnergy ==
    (Answered("detectPhaseImbalance")
        /\ called.phase1 = 0 /\ called.phase2 = 0 /\ called.phase3 = 0) =>
        /\ returned.kind = "value"
        /\ returned.value = << >>

\* the call with three contributions of 0 has returned
C23_Witness ==
    /\ Answered("detectPhaseImbalance")
    /\ called.phase1 = 0
    /\ called.phase2 = 0
    /\ called.phase3 = 0
    /\ returned.value = << >>
    /\ getPhaseContributions(<<0, 0, 0>>) = <<0, 0, 0>>

----------------------------------------------------------------------------
(* C24 *)

----------------------------------------------------------------------------
(* C25 *)

\* C25: for a device with three phases and a positive total energy, every
\* contribution getPhaseContributions returns lies in [0, 100] and the three
\* sum to 100 within the tolerance of their rounding to one decimal (0.1);
\* when the total energy is 0 every contribution is 0.
C25_ContributionsSumToHundred ==
    (Answered("getPhaseContributions") /\ Len(called.rows) = 3) =>
        /\ returned.kind = "value"
        /\ Len(returned.value) = 3
        /\ Sum(called.rows) > 0 =>
              /\ \A i \in 1 .. 3 : returned.value[i] >= 0 /\ returned.value[i] <= 1000
              /\ Sum(returned.value) >= 999
              /\ Sum(returned.value) <= 1001
        /\ Sum(called.rows) = 0 => \A i \in 1 .. 3 : returned.value[i] = 0

\* energies 1, 1 and 5 Wh: 14.3%, 14.3% and 71.4%
C25_Witness ==
    /\ Answered("getPhaseContributions")
    /\ called.rows = <<1, 1, 5>>
    /\ returned.value = <<143, 143, 714>>


----------------------------------------------------------------------------
(* C26 *)

\* C26 as stated: in the list the insights endpoint answers with (the list
\* of generateInsights with the phase-imbalance insight the handler pushed
\* onto it), the info "all normal" insight is present only when the list
\* holds no warning and no critical insight.
C26_AllNormalOnlyWithoutAlerts ==
    \A h \in DOMAIN tasks :
        (tasks[h].pc = "respond" /\ tasks[h].op = "generateInsights") =>
            LET list == heap[tasks[h].ref].value
            IN  (\E i \in 1 .. Len(list) : list[i] = AllNormal)
                    => \A i \in 1 .. Len(list) : list[i].severity = "info"


----------------------------------------------------------------------------
(* C27 *)

\* C27: the domestic bill is monotone in consumption: the domestic
\* totalAmount for any energy from 0 up to the billed one is not greater
\* than the billed totalAmount, and in the breakdown the rate of each slab
\* is not lower than the rate of the slab before it.
C27_DomesticMonotone ==
    (BillFor("domestic-3phase") /\ request.totalEnergy >= 0
        /\ request.maxDemandKVA = Undefined /\ request.averagePowerFactor = Undefined) =>
        /\ \A e1 \in Energies :
              (0 <= e1 /\ e1 <= request.totalEnergy) =>
                  calculateBill([request EXCEPT !.totalEnergy = e1], Now).totalAmount
                      <= result.totalAmount
        /\ \A i \in 1 .. Len(result.breakdown) - 1 :
              result.breakdown[i].rate <= result.breakdown[i + 1].rate

\* 200 kWh: all six slabs, at rising rates, and a total above that of 180 kWh
C27_Witness ==
    /\ BillFor("domestic-3phase")
    /\ request.totalEnergy = 200000
    /\ request.maxDemandKVA = Undefined
    /\ request.averagePowerFactor = Undefined
    /\ Len(result.breakdown) = 6
    /\ result.breakdown[1].rate < result.breakdown[6].rate
    /\ calculateBill([request EXCEPT !.totalEnergy = 180000], Now).totalAmount
          < result.totalAmount


----------------------------------------------------------------------------
(* C28 *)

\* C28: in an industrial bill for totalEnergy >= 0, a demand >= 0 and a
\* power factor in [0, 1], the incentive never exceeds 5% of the subtotal
\* (energy charge + demand charge), so totalAmount is never below the fixed
\* charge of 1500.00 and never negative.
C28_IndustrialIncentiveAtMostFivePercent ==
    (BillFor("industrial-3phase") /\ request.totalEnergy >= 0) =>
        /\ -result.powerFactorAdjustment
              <= NearestOfProduct(Subtotal(2450, 55000), 5, 100000)
        /\ result.totalAmount >= 150000
        /\ result.totalAmount >= 0

\* a subtotal of 1000.00 at power factor 1.00: the incentive is 50.00, 5%
C28_Witness ==
    /\ BillFor("industrial-3phase")
    /\ request.totalEnergy = 4000
    /\ request.maxDemandKVA = Some(1640)
    /\ request.averagePowerFactor = Some(100)
    /\ result.powerFactorAdjustment = -5000
    /\ result.totalAmount = 245000


----------------------------------------------------------------------------
(* C29 *)

\* C29 as stated, for a request the device-id middleware lets through: when
\* totalEnergy is a non-negative number, 0 included, and connectionCategory
\* is present, the handler calls calculateBill and answers 200 with the bill
\* if the category is known; for totalEnergy 0 and the domestic category the
\* bill has an empty breakdown and totalAmount 150.00; it answers 400
\* without calling calculateBill only when totalEnergy is missing or not a
\* number or connectionCategory is missing.
C29_ZeroEnergyIsBilled ==
    (body # NoRequest /\ validateDeviceId(body) = NoRequest) =>
        LET numeric == body.totalEnergy.type = "number"
            present == ~Falsy(body.connectionCategory)
            known == body.connectionCategory.type = "string"
                        /\ body.connectionCategory.s \in
                              {"domestic-3phase", "general-purpose-3phase",
                               "industrial-3phase"}
        IN  /\ (numeric /\ body.totalEnergy.n >= 0 /\ present) =>
                  /\ request # NoRequest
                  /\ known => (response.status = 200 /\ response.data = result
                                  /\ result.kind = "bill")
            /\ (numeric /\ body.totalEnergy.n = 0
                    /\ body.connectionCategory = Str("domestic-3phase")) =>
                  /\ response.status = 200
                  /\ response.data.breakdown = << >>
                  /\ response.data.totalAmount = 15000
            /\ response.status = 400 =>
                  /\ request = NoRequest
                  /\ ~numeric \/ ~present


----------------------------------------------------------------------------
(* C30 *)

\* the last n elements of a sequence
Last(seq, n) == SubSeq(seq, Len(seq) - n + 1, Len(seq))

\* C30: after any sequence of POST /api/gsm-test requests gsmLogs holds at
\* most 100 entries, exactly the most recent min(n, 100) of the n entries
\* received, in arrival order; totalLogs in the response to a POST is the
\* length of the buffer after that request's entry was added; and a GET
\* /api/gsm-logs never changes the buffer.
C30_LastHundredEntries ==
    /\ [](/\ Len(gsmLogs) <= 100
          /\ gsmLogs = Last(received, Min(Len(received), 100))
          /\ (body # NoRequest /\ body.kind = "POST /api/gsm-test") =>
                /\ response.totalLogs = Len(gsmLogs)
                /\ gsmLogs[Len(gsmLogs)].data = body.data
          /\ (body # NoRequest /\ body.kind = "GET /api/gsm-logs") =>
                /\ response.totalLogs = Len(gsmLogs)
                /\ response.logs = gsmLogs)
    /\ [][(body = NoRequest /\ body' # NoRequest /\ body'.kind = "GET /api/gsm-logs")
              => gsmLogs' = gsmLogs]_vars

\* the 101st entry has arrived: the first one is gone, the answer says 100
C30_Witness ==
    /\ body # NoRequest
    /\ body.kind = "POST /api/gsm-test"
    /\ Len(received) = 101
    /\ Len(gsmLogs) = 100
    /\ gsmLogs[1] = received[2]
    /\ gsmLogs[100] = received[101]
    /\ response.totalLogs = 100

====
